---- MODULE Spec2Model ----
(***************************************************************************)
(* Log aggregation engine of myscript_optimized.py (parallel) and          *)
(* myscript.py (sequential).                                               *)
(*                                                                         *)
(* A log file is a sequence of csv rows, one row per line (the input       *)
(* format of the log directory: one record per line, no quoted field       *)
(* spanning lines).  A row is a sequence of field texts:                   *)
(*   row[1]      the timestamp text, written <<date, hh, mm, ss>>          *)
(*               (date is the ordinal of the calendar day);                *)
(*   row[2..3]   user and app, strings;                                    *)
(*   row[4..12]  the nine metric texts, strings.                           *)
(* Python indexes from 0, TLA+ from 1: row[i] of the source is row[i+1].   *)
(***************************************************************************)
EXTENDS Integers, Sequences, FiniteSets, TLC

VARIABLES
    entry,            \* which function of the source the behaviour runs
    logs,             \* LOGS_DIR: date -> [exists, rows]
    req,              \* the arguments of the call
    pc,               \* position of the calling (coordinating) thread
    di,               \* submission loop: dates of date_files already visited
    futures,          \* the futures submitted to the executor, in order
    yielded,          \* futures already yielded by as_completed, in order
    combined,         \* combined table of the coordinating thread
    total_rows,
    files_processed,
    result,           \* what the call returned or raised
    output,           \* the csv file main wrote
    scan,             \* row-by-row scan of one file (worker and reader)
    clock             \* a timestamp and the period starts computed from it

vars == <<entry, logs, req, pc, di, futures, yielded, combined, total_rows,
          files_processed, result, output, scan, clock>>

inputs == <<entry, logs, req>>

(***************************************************************************)
(* Bounds of the model.                                                    *)
(***************************************************************************)
NumDays == 2          \* calendar days the log directory spans
MaxThreads == 3       \* largest --threads value tried
MaxLines == 4         \* longest file handed to process_file_parallel

(***************************************************************************)
(* Program constants.                                                      *)
(***************************************************************************)
NUM_METRICS == 9      \* METRIC_COLUMNS, range(3, 12), [0] * 9
MIN_FIELDS == 12      \* len(row) < 12
HALF_HOUR == 30       \* (timestamp.minute // 30) * 30

Dates == 1..NumDays
Users == {"u1", "u2"}
Apps == {"a1", "a2", "a3"}

(***************************************************************************)
(* datetime: parse_datetime, comparison, strftime.                         *)
(***************************************************************************)
\* datetime.strptime(dt_str, '%Y-%m-%d %H:%M:%S') raises ValueError on a text
\* whose hour, minute or second is out of range.
CanParse(dt_str) ==
    /\ dt_str[1] >= 1
    /\ dt_str[2] \in 0..23
    /\ dt_str[3] \in 0..59
    /\ dt_str[4] \in 0..59

parse_datetime(dt_str) ==
    [date |-> dt_str[1], hour |-> dt_str[2], minute |-> dt_str[3],
     second |-> dt_str[4]]

\* strftime('%Y-%m-%d %H:%M:%S')
strftime(dt) == <<dt.date, dt.hour, dt.minute, dt.second>>

\* seconds since the epoch of the model; datetime's <, <=, >= compare these
Instant(dt) == ((dt.date * 24 + dt.hour) * 60 + dt.minute) * 60 + dt.second

DtLess(a, b) == Instant(a) < Instant(b)

Granularities == {"30m", "1day"}

\* get_period_start raises ValueError for any other granularity
InvalidGranularity(granularity) == granularity \notin Granularities

\* get_period_start without second=0 in the 30m branch
get_period_start_keep_second(timestamp, granularity) ==
    IF granularity = "30m"
    THEN [timestamp EXCEPT !.minute = (timestamp.minute \div HALF_HOUR) * HALF_HOUR]
    ELSE [timestamp EXCEPT !.hour = 0, !.minute = 0, !.second = 0]

\* get_period_start, for a granularity it accepts
get_period_start(timestamp, granularity) ==
    IF granularity = "30m"
    THEN [timestamp EXCEPT !.minute = (timestamp.minute \div HALF_HOUR) * HALF_HOUR,
                           !.second = 0]
    ELSE [timestamp EXCEPT !.hour = 0, !.minute = 0, !.second = 0]

\* get_date_range: the dates from from_dt.date() to to_dt.date(), inclusive.
get_date_range(from_dt, to_dt) ==
    [i \in 1..(IF to_dt.date >= from_dt.date
               THEN to_dt.date - from_dt.date + 1 ELSE 0)
        |-> from_dt.date + i - 1]

(***************************************************************************)
(* Metric texts and int().                                                 *)
(***************************************************************************)
\* int(text) for the texts that occur in the modelled files; int raises
\* ValueError on any other text ("x", "1.5", "").
IntText == [t \in {"0", "1", "2", "3", "7", "-1"} |->
              CASE t = "0" -> 0 [] t = "1" -> 1 [] t = "2" -> 2
                [] t = "3" -> 3 [] t = "7" -> 7 [] t = "-1" -> 0 - 1]

IsInt(text) == text \in DOMAIN IntText

ZeroVector == [i \in 1..NUM_METRICS |-> 0]

\* for i in range(9): table[key][i] += metrics[i], on a defaultdict
AddMetrics(table, key, metrics) ==
    LET old == IF key \in DOMAIN table THEN table[key] ELSE ZeroVector
    IN  [k \in DOMAIN table \cup {key} |->
            IF k = key THEN [i \in 1..NUM_METRICS |-> old[i] + metrics[i]]
            ELSE table[k]]

EmptyTable == [k \in {} |-> ZeroVector]

(***************************************************************************)
(* Filters and dimensions.                                                 *)
(* A filter argument is [supplied, values]: supplied = FALSE is None, and  *)
(* values is the set of the list's elements.                               *)
(***************************************************************************)
NoFilter == [supplied |-> FALSE, values |-> {}]

\* set(user_filter) if user_filter else None: None and the empty list are falsy
FilterSet(filter) ==
    IF filter.supplied /\ filter.values # {}
    THEN [none |-> FALSE, members |-> filter.values]
    ELSE [none |-> TRUE, members |-> {}]

\* FilteredOut with the membership test inverted
FilteredOutInverted(set, value) ==
    /\ ~set.none
    /\ set.members # {}
    /\ value \in set.members

\* if user_set and user not in user_set: continue
FilteredOut(set, value) ==
    /\ ~set.none
    /\ set.members # {}
    /\ value \notin set.members

\* 'user' in dimensions
InList(x, list) == \E i \in 1..Len(list) : list[i] = x

\* BuildKey with the values in the order the caller lists the dimensions
BuildKeyCallerOrder(period_str, user, app, dimensions) ==
    <<period_str>>
        \o [n \in 1..Len(dimensions) |->
               IF dimensions[n] = "user" THEN user ELSE app]

\* dim_values; key = (period_str, *dim_values)
BuildKey(period_str, user, app, dimensions) ==
    <<period_str>>
        \o (IF InList("user", dimensions) THEN <<user>> ELSE <<>>)
        \o (IF InList("app", dimensions) THEN <<app>> ELSE <<>>)

\* OutsideWindow with "row_dt > to_dt": the end of the window included
OutsideWindowClosed(row_dt, from_dt, to_dt) ==
    DtLess(row_dt, from_dt) \/ DtLess(to_dt, row_dt)

\* OutsideWindow with "row_dt <= from_dt": the start of the window excluded
OutsideWindowAfterFrom(row_dt, from_dt, to_dt) ==
    ~DtLess(from_dt, row_dt) \/ ~DtLess(row_dt, to_dt)

\* row_dt < from_dt or row_dt >= to_dt
OutsideWindow(row_dt, from_dt, to_dt) ==
    DtLess(row_dt, from_dt) \/ ~DtLess(row_dt, to_dt)

\* [int(row[i]) for i in range(3, 12)] raises ValueError on a non-integer text
MetricsRaise(row) == \E i \in 4..MIN_FIELDS : ~IsInt(row[i])

ParseMetrics(row) == [i \in 1..NUM_METRICS |-> IntText[row[i + 3]]]

(***************************************************************************)
(* process_file_chunk (myscript_optimized.py).                             *)
(* The local state of one call: local_aggregated, rows_processed,          *)
(* rows_read, and raised = TRUE once an exception left the loop.           *)
(***************************************************************************)
WorkerInit ==
    [local_aggregated |-> EmptyTable, rows_processed |-> 0, rows_read |-> 0,
     raised |-> FALSE]

\* RowStep with the metrics parsed before the timestamp, as parse_row of
\* myscript.py does
RowStepMetricsFirst(st, row, r) ==
    LET read == [st EXCEPT !.rows_read = @ + 1]
        user_set == FilterSet(r.user_filter)
        app_set == FilterSet(r.app_filter)
    IN  IF Len(row) < MIN_FIELDS THEN read
        ELSE IF FilteredOut(user_set, row[2]) THEN read
        ELSE IF FilteredOut(app_set, row[3]) THEN read
        ELSE IF MetricsRaise(row) THEN [read EXCEPT !.raised = TRUE]
        ELSE IF ~CanParse(row[1]) THEN read
        ELSE IF OutsideWindow(parse_datetime(row[1]), r.from_dt, r.to_dt) THEN read
        ELSE IF InvalidGranularity(r.granularity)
             THEN [read EXCEPT !.rows_processed = @ + 1, !.raised = TRUE]
        ELSE LET period_start == get_period_start(parse_datetime(row[1]),
                                                  r.granularity)
                 key == BuildKey(strftime(period_start), row[2], row[3],
                                 r.dimensions)
             IN  [read EXCEPT !.rows_processed = @ + 1,
                              !.local_aggregated =
                                  AddMetrics(@, key, ParseMetrics(row))]

\* RowStep with "if user_filter is not None and user not in user_filter":
\* an empty list rejects every record
RowStepListFilter(st, row, r) ==
    LET read == [st EXCEPT !.rows_read = @ + 1]
    IN  IF Len(row) < MIN_FIELDS THEN read
        ELSE IF r.user_filter.supplied /\ row[2] \notin r.user_filter.values THEN read
        ELSE IF r.app_filter.supplied /\ row[3] \notin r.app_filter.values THEN read
        ELSE IF ~CanParse(row[1]) THEN read
        ELSE IF OutsideWindow(parse_datetime(row[1]), r.from_dt, r.to_dt) THEN read
        ELSE IF InvalidGranularity(r.granularity)
             THEN [read EXCEPT !.rows_processed = @ + 1, !.raised = TRUE]
        ELSE IF MetricsRaise(row)
             THEN [read EXCEPT !.rows_processed = @ + 1, !.raised = TRUE]
        ELSE LET period_start == get_period_start(parse_datetime(row[1]),
                                                  r.granularity)
                 key == BuildKey(strftime(period_start), row[2], row[3],
                                 r.dimensions)
             IN  [read EXCEPT !.rows_processed = @ + 1,
                              !.local_aggregated =
                                  AddMetrics(@, key, ParseMetrics(row))]

\* One iteration of "for row in reader", after the chunk_size test.
RowStep(st, row, r) ==
    LET read == [st EXCEPT !.rows_read = @ + 1]
        user_set == FilterSet(r.user_filter)
        app_set == FilterSet(r.app_filter)
    IN  IF Len(row) < MIN_FIELDS THEN read
        ELSE IF FilteredOut(user_set, row[2]) THEN read
        ELSE IF FilteredOut(app_set, row[3]) THEN read
        ELSE IF ~CanParse(row[1]) THEN read
        ELSE IF OutsideWindow(parse_datetime(row[1]), r.from_dt, r.to_dt) THEN read
        ELSE IF InvalidGranularity(r.granularity)
             THEN [read EXCEPT !.rows_processed = @ + 1, !.raised = TRUE]
        ELSE IF MetricsRaise(row)
             THEN [read EXCEPT !.rows_processed = @ + 1, !.raised = TRUE]
        ELSE LET period_start == get_period_start(parse_datetime(row[1]),
                                                  r.granularity)
                 key == BuildKey(strftime(period_start), row[2], row[3],
                                 r.dimensions)
             IN  [read EXCEPT !.rows_processed = @ + 1,
                              !.local_aggregated =
                                  AddMetrics(@, key, ParseMetrics(row))]

\* HasNext with "rows_read > chunk_size": one row too many
HasNextOneMore(st, rows, chunk_start, chunk_size) ==
    /\ ~st.raised
    /\ chunk_start + st.rows_read < Len(rows)
    /\ ~(chunk_size # 0 /\ st.rows_read > chunk_size)

\* The reader has a row to hand to the loop body: the chunk_start lines
\* skipped by next(f, None), rows_read rows consumed, chunk_size not reached
\* (chunk_size = 0 stands for None: both are falsy in "if chunk_size and").
HasNext(st, rows, chunk_start, chunk_size) ==
    /\ ~st.raised
    /\ chunk_start + st.rows_read < Len(rows)
    /\ ~(chunk_size # 0 /\ st.rows_read >= chunk_size)

RECURSIVE ChunkLoop(_, _, _, _, _)
ChunkLoop(st, rows, r, chunk_start, chunk_size) ==
    IF HasNext(st, rows, chunk_start, chunk_size)
    THEN ChunkLoop(RowStep(st, rows[chunk_start + st.rows_read + 1], r),
                   rows, r, chunk_start, chunk_size)
    ELSE st

\* process_file_chunk: [raised, table, rows]; a missing file gives an empty
\* table and 0.
process_file_chunk(file, r, chunk_start, chunk_size) ==
    IF ~file.exists
    THEN [raised |-> FALSE, table |-> EmptyTable, rows |-> 0]
    ELSE LET st == ChunkLoop(WorkerInit, file.rows, r, chunk_start, chunk_size)
         IN  [raised |-> st.raised, table |-> st.local_aggregated,
              rows |-> st.rows_processed]

(***************************************************************************)
(* Exceptions.  An exception is its type, the text and the value of its    *)
(* message, and the file and the line it names (0: it names none: a        *)
(* ValueError has a message only).                                         *)
(***************************************************************************)
NoError == [type |-> "none", message |-> "", value |-> "", filename |-> 0, line |-> 0]

\* int(text): ValueError: invalid literal for int() with base 10: 'text'
IntError(text) ==
    [type |-> "ValueError", message |-> "invalid literal for int() with base 10",
     value |-> text, filename |-> 0, line |-> 0]

\* raise ValueError(f"Invalid granularity: {granularity}")
GranularityError(granularity) ==
    [type |-> "ValueError", message |-> "Invalid granularity",
     value |-> granularity, filename |-> 0, line |-> 0]

\* ThreadPoolExecutor(max_workers=0)
PoolError ==
    [type |-> "ValueError", message |-> "max_workers must be greater than 0",
     value |-> "", filename |-> 0, line |-> 0]

\* open(filepath): FileNotFoundError names the path
FileNotFound(filepath) ==
    [type |-> "FileNotFoundError", message |-> "No such file or directory",
     value |-> "", filename |-> filepath, line |-> 0]

\* the exception the loop body raises on a row: get_period_start is called
\* before the metrics are converted, and int() fails on the first bad text
RaisedBy(row, r) ==
    IF InvalidGranularity(r.granularity) THEN GranularityError(r.granularity)
    ELSE IntError(row[CHOOSE i \in 4..12 :
                         /\ ~IsInt(row[i])
                         /\ \A j \in 4..(i - 1) : IsInt(row[j])])

\* the exception of a call of process_file_chunk, if it raises: that of the
\* last row its loop read
ChunkError(file, r, chunk_start, chunk_size) ==
    LET st == ChunkLoop(WorkerInit, file.rows, r, chunk_start, chunk_size)
    IN  IF file.exists /\ st.raised
        THEN RaisedBy(file.rows[chunk_start + st.rows_read], r)
        ELSE NoError

(***************************************************************************)
(* read_log_file and aggregate_data (myscript.py).                         *)
(***************************************************************************)
ReaderStart == [aggregated |-> EmptyTable, raised |-> FALSE]

\* One iteration of "for row in reader" of read_log_file, with the body of
\* the loop of aggregate_data that consumes the yielded row.
ReadRowStep(st, row, r) ==
    LET user_set == FilterSet(r.user_filter)
        app_set == FilterSet(r.app_filter)
    IN  IF Len(row) < MIN_FIELDS THEN st
        ELSE IF MetricsRaise(row) THEN [st EXCEPT !.raised = TRUE]
        ELSE IF FilteredOut(user_set, row[2]) THEN st
        ELSE IF FilteredOut(app_set, row[3]) THEN st
        ELSE IF ~CanParse(row[1]) THEN st
        ELSE IF OutsideWindow(parse_datetime(row[1]), r.from_dt, r.to_dt) THEN st
        ELSE IF InvalidGranularity(r.granularity) THEN [st EXCEPT !.raised = TRUE]
        ELSE LET period_start == get_period_start(parse_datetime(row[1]),
                                                  r.granularity)
                 key == BuildKey(strftime(period_start), row[2], row[3],
                                 r.dimensions)
             IN  [st EXCEPT !.aggregated = AddMetrics(@, key, ParseMetrics(row))]

RECURSIVE ReadLoop(_, _, _, _)
ReadLoop(st, rows, i, r) ==
    IF st.raised \/ i > Len(rows) THEN st
    ELSE ReadLoop(ReadRowStep(st, rows[i], r), rows, i + 1, r)

(***************************************************************************)
(* The log directory and the executor.                                     *)
(***************************************************************************)
Missing == [exists |-> FALSE, rows |-> <<>>]
File(rows) == [exists |-> TRUE, rows |-> rows]

\* os.path.join(LOGS_DIR, f'{date_str}.log.csv'): the file of a date, if any
FileAt(dir, date) == IF date \in DOMAIN dir THEN dir[date] ELSE Missing

\* aggregate_data: the files of date_files in order; a missing file yields
\* nothing.
RECURSIVE AggregateFiles(_, _, _, _)
AggregateFiles(st, date_files, dir, r) ==
    IF st.raised \/ date_files = <<>> THEN st
    ELSE LET file == FileAt(dir, Head(date_files))
         IN  AggregateFiles(IF file.exists THEN ReadLoop(st, file.rows, 1, r) ELSE st,
                            Tail(date_files), dir, r)

aggregate_data(dir, r) ==
    AggregateFiles(ReaderStart, get_date_range(r.from_dt, r.to_dt), dir, r)

Min(a, b) == IF a <= b THEN a ELSE b

NoOutcome == [raised |-> FALSE, table |-> EmptyTable, rows |-> 0, rows_read |-> 0,
              error |-> NoError]

\* executor.submit(process_file_chunk, filepath, ..., chunk_start, chunk_size)
Future(filepath, chunk_start, chunk_size) ==
    [filepath |-> filepath, chunk_start |-> chunk_start, chunk_size |-> chunk_size,
     state |-> "pending", outcome |-> NoOutcome]

\* what the call a future runs leaves behind: the returned pair or the
\* exception, and the rows_read its loop reached
RunChunk(fut, dir, r) ==
    LET file == FileAt(dir, fut.filepath)
        st == ChunkLoop(WorkerInit, file.rows, r, fut.chunk_start, fut.chunk_size)
        out == process_file_chunk(file, r, fut.chunk_start, fut.chunk_size)
    IN  [raised |-> out.raised, table |-> out.table, rows |-> out.rows,
         rows_read |-> IF file.exists THEN st.rows_read ELSE 0,
         error |-> ChunkError(file, r, fut.chunk_start, fut.chunk_size)]

\* MergeInto with "=" for "+=": a key's vector is overwritten
MergeIntoOverwrite(table, partial) ==
    [k \in DOMAIN table \cup DOMAIN partial |->
        IF k \in DOMAIN partial THEN partial[k] ELSE table[k]]

\* for key, metrics in partial.items(): combined[key][i] += metrics[i]
MergeInto(table, partial) ==
    [k \in DOMAIN table \cup DOMAIN partial |->
        IF k \notin DOMAIN partial THEN table[k]
        ELSE LET old == IF k \in DOMAIN table THEN table[k] ELSE ZeroVector
             IN  [i \in 1..NUM_METRICS |-> old[i] + partial[k][i]]]

\* ThreadPoolExecutor(max_workers=...)
MaxWorkers ==
    IF entry = "aggregate_data_parallel"
    THEN Min(req.num_threads, Len(get_date_range(req.from_dt, req.to_dt)))
    ELSE req.num_threads

Running == {i \in 1..Len(futures) : futures[i].state = "running"}
Pending == {i \in 1..Len(futures) : futures[i].state = "pending"}
Finished == {i \in 1..Len(futures) : futures[i].state = "finished"}
Yielded == {yielded[n] : n \in 1..Len(yielded)}

NoResult == [kind |-> "none", table |-> EmptyTable, total_rows |-> 0,
             files_processed |-> 0, error |-> NoError]
NoOutput == [written |-> FALSE, header |-> <<>>, rows |-> <<>>]
NoScan == [rows |-> <<>>, worker |-> WorkerInit, reader |-> ReaderStart, read |-> 0]
NoClock == [timestamp |-> parse_datetime(<<1, 0, 0, 0>>), granularity |-> "30m",
            period |-> parse_datetime(<<1, 0, 0, 0>>),
            again |-> parse_datetime(<<1, 0, 0, 0>>), applied |-> 0]

\* StartWork by a worker that waits until a sibling has been started
StartWorkAfterSibling(i) ==
    /\ pc \in {"submit", "collect", "shutdown"}
    /\ i \in Pending
    /\ \A j \in Pending : i <= j
    /\ Cardinality(Running) < MaxWorkers
    /\ di = 1 \/ \E j \in 1..Len(futures) : j # i /\ futures[j].state # "pending"
    /\ futures' = [futures EXCEPT ![i].state = "running"]
    /\ UNCHANGED <<inputs, pc, di, yielded, combined, total_rows,
                   files_processed, result, output, scan, clock>>

\* A pool thread takes the oldest queued work item.
StartWork(i) ==
    /\ pc \in {"submit", "collect", "shutdown"}
    /\ i \in Pending
    /\ \A j \in Pending : i <= j
    /\ Cardinality(Running) < MaxWorkers
    /\ futures' = [futures EXCEPT ![i].state = "running"]
    /\ UNCHANGED <<inputs, pc, di, yielded, combined, total_rows,
                   files_processed, result, output, scan, clock>>

\* FinishWork by a worker that adds its rows to the combined table itself
FinishWorkShared(i) ==
    /\ i \in Running
    /\ futures' = [futures EXCEPT ![i].state = "finished",
                                  ![i].outcome = RunChunk(futures[i], logs, req)]
    /\ combined' = MergeInto(combined, RunChunk(futures[i], logs, req).table)
    /\ UNCHANGED <<inputs, pc, di, yielded, total_rows,
                   files_processed, result, output, scan, clock>>

\* The call returns or raises: the future completes.
FinishWork(i) ==
    /\ i \in Running
    /\ futures' = [futures EXCEPT ![i].state = "finished",
                                  ![i].outcome = RunChunk(futures[i], logs, req)]
    /\ UNCHANGED <<inputs, pc, di, yielded, combined, total_rows,
                   files_processed, result, output, scan, clock>>

(***************************************************************************)
(* aggregate_data_parallel.                                                *)
(***************************************************************************)
\* date_files, the three accumulators and the executor; max_workers <= 0
\* makes ThreadPoolExecutor raise ValueError.
OpenPool ==
    /\ entry = "aggregate_data_parallel"
    /\ pc = "start"
    /\ IF MaxWorkers <= 0
       THEN /\ pc' = "raised"
            /\ result' = [NoResult EXCEPT !.kind = "raised", !.error = PoolError]
       ELSE /\ pc' = "submit"
            /\ result' = result
    /\ UNCHANGED <<inputs, di, futures, yielded, combined, total_rows,
                   files_processed, output, scan, clock>>

\* SubmitFile without "if os.path.exists(filepath)": every date is submitted
SubmitFileAlways ==
    /\ entry = "aggregate_data_parallel"
    /\ pc = "submit"
    /\ LET date_files == get_date_range(req.from_dt, req.to_dt)
       IN  IF di < Len(date_files)
           THEN /\ di' = di + 1
                /\ futures' = Append(futures, Future(date_files[di + 1], 0, 0))
                /\ pc' = pc
           ELSE /\ pc' = "collect"
                /\ UNCHANGED <<di, futures>>
    /\ UNCHANGED <<inputs, yielded, combined, total_rows,
                   files_processed, result, output, scan, clock>>

\* for date_str in date_files: submit the file if it exists
SubmitFile ==
    /\ entry = "aggregate_data_parallel"
    /\ pc = "submit"
    /\ LET date_files == get_date_range(req.from_dt, req.to_dt)
       IN  IF di < Len(date_files)
           THEN /\ di' = di + 1
                /\ futures' =
                     IF FileAt(logs, date_files[di + 1]).exists
                     THEN Append(futures, Future(date_files[di + 1], 0, 0))
                     ELSE futures
                /\ pc' = pc
           ELSE /\ pc' = "collect"
                /\ UNCHANGED <<di, futures>>
    /\ UNCHANGED <<inputs, yielded, combined, total_rows,
                   files_processed, result, output, scan, clock>>

\* CollectFile with the worker's exception caught and the future skipped
CollectFileSwallow(i) ==
    /\ entry = "aggregate_data_parallel"
    /\ pc = "collect"
    /\ i \in Finished \ Yielded
    /\ yielded' = Append(yielded, i)
    /\ pc' = pc
    /\ IF futures[i].outcome.raised
       THEN UNCHANGED <<combined, total_rows, files_processed>>
       ELSE /\ total_rows' = total_rows + futures[i].outcome.rows
            /\ files_processed' = files_processed + 1
            /\ combined' = MergeInto(combined, futures[i].outcome.table)
    /\ UNCHANGED <<inputs, di, futures, result, output, scan, clock>>

\* CollectFile that takes a future whether or not it has completed
CollectFileEarly(i) ==
    /\ entry = "aggregate_data_parallel"
    /\ pc = "collect"
    /\ i \in (1..Len(futures)) \ Yielded
    /\ yielded' = Append(yielded, i)
    /\ IF futures[i].outcome.raised
       THEN /\ pc' = "shutdown"
            /\ UNCHANGED <<combined, total_rows, files_processed>>
       ELSE /\ pc' = pc
            /\ total_rows' = total_rows + futures[i].outcome.rows
            /\ files_processed' = files_processed + 1
            /\ combined' = MergeInto(combined, futures[i].outcome.table)
    /\ UNCHANGED <<inputs, di, futures, result, output, scan, clock>>

\* for future in as_completed(futures): future.result() returns the pair,
\* which is merged, or raises the worker's exception, which leaves the with
\* block.
CollectFile(i) ==
    /\ entry = "aggregate_data_parallel"
    /\ pc = "collect"
    /\ i \in Finished \ Yielded
    /\ yielded' = Append(yielded, i)
    /\ IF futures[i].outcome.raised
       THEN /\ pc' = "shutdown"
            /\ UNCHANGED <<combined, total_rows, files_processed>>
       ELSE /\ pc' = pc
            /\ total_rows' = total_rows + futures[i].outcome.rows
            /\ files_processed' = files_processed + 1
            /\ combined' = MergeInto(combined, futures[i].outcome.table)
    /\ UNCHANGED <<inputs, di, futures, result, output, scan, clock>>

\* return combined, total_rows, files_processed
ReturnAggregate ==
    /\ entry = "aggregate_data_parallel"
    /\ pc = "collect"
    /\ Yielded = 1..Len(futures)
    /\ pc' = "returned"
    /\ result' = [NoResult EXCEPT !.kind = "returned", !.table = combined,
                                  !.total_rows = total_rows,
                                  !.files_processed = files_processed]
    /\ UNCHANGED <<inputs, di, futures, yielded, combined, total_rows,
                   files_processed, output, scan, clock>>

\* The with block is left by an exception: executor.shutdown(wait=True) lets
\* every submitted future run to its end, then the exception reaches the caller.
Shutdown ==
    /\ pc = "shutdown"
    /\ Finished = 1..Len(futures)
    /\ pc' = "raised"
    /\ result' = [NoResult EXCEPT
                     !.kind = "raised",
                     !.error = futures[yielded[Len(yielded)]].outcome.error]
    /\ UNCHANGED <<inputs, di, futures, yielded, combined, total_rows,
                   files_processed, output, scan, clock>>

(***************************************************************************)
(* process_file_parallel.                                                  *)
(***************************************************************************)
\* line_count < 100000: the source's threshold, scaled to the file lengths
\* of the model so that files of a few lines are split into chunks.
ROW_THRESHOLD == 3

\* ChunkSize rounding down: line_count // num_threads
ChunkSizeFloor(line_count, num_threads) == line_count \div num_threads

\* chunk_size = (line_count + num_threads - 1) // num_threads
ChunkSize(line_count, num_threads) ==
    (line_count + num_threads - 1) \div num_threads

\* The line count, the empty file, and the small file or single thread,
\* which the calling thread processes itself; open() raises on a missing file.
CountLines ==
    /\ entry = "process_file_parallel"
    /\ pc = "start"
    /\ LET file == FileAt(logs, req.filepath)
           line_count == Len(file.rows)
           whole == process_file_chunk(file, req, 0, 0)
       IN  IF ~file.exists
           THEN /\ pc' = "raised"
                /\ result' = [NoResult EXCEPT !.kind = "raised",
                                              !.error = FileNotFound(req.filepath)]
           ELSE IF line_count = 0
           THEN /\ pc' = "returned"
                /\ result' = [NoResult EXCEPT !.kind = "returned"]
           ELSE IF line_count < ROW_THRESHOLD \/ req.num_threads = 1
           THEN IF whole.raised
                THEN /\ pc' = "raised"
                     /\ result' = [NoResult EXCEPT
                                      !.kind = "raised",
                                      !.error = ChunkError(file, req, 0, 0)]
                ELSE /\ pc' = "returned"
                     /\ result' = [NoResult EXCEPT !.kind = "returned",
                                                   !.table = whole.table,
                                                   !.total_rows = whole.rows]
           ELSE /\ pc' = "submit"
                /\ result' = result
    /\ UNCHANGED <<inputs, di, futures, yielded, combined, total_rows,
                   files_processed, output, scan, clock>>

\* SubmitChunk with the chunks numbered from 1: chunk_start = (i + 1) * chunk_size
SubmitChunkFromOne ==
    /\ entry = "process_file_parallel"
    /\ pc = "submit"
    /\ LET chunk_size == ChunkSize(Len(FileAt(logs, req.filepath).rows),
                                   req.num_threads)
       IN  IF di < req.num_threads
           THEN /\ di' = di + 1
                /\ futures' = Append(futures,
                                     Future(req.filepath, (di + 1) * chunk_size,
                                            chunk_size))
                /\ pc' = pc
           ELSE /\ pc' = "collect"
                /\ UNCHANGED <<di, futures>>
    /\ UNCHANGED <<inputs, yielded, combined, total_rows,
                   files_processed, result, output, scan, clock>>

\* for i in range(num_threads): submit the chunk that starts at i * chunk_size
SubmitChunk ==
    /\ entry = "process_file_parallel"
    /\ pc = "submit"
    /\ LET chunk_size == ChunkSize(Len(FileAt(logs, req.filepath).rows),
                                   req.num_threads)
       IN  IF di < req.num_threads
           THEN /\ di' = di + 1
                /\ futures' = Append(futures,
                                     Future(req.filepath, di * chunk_size, chunk_size))
                /\ pc' = pc
           ELSE /\ pc' = "collect"
                /\ UNCHANGED <<di, futures>>
    /\ UNCHANGED <<inputs, yielded, combined, total_rows,
                   files_processed, result, output, scan, clock>>

\* for future in as_completed(futures): merge the partial result
CollectChunk(i) ==
    /\ entry = "process_file_parallel"
    /\ pc = "collect"
    /\ i \in Finished \ Yielded
    /\ yielded' = Append(yielded, i)
    /\ IF futures[i].outcome.raised
       THEN /\ pc' = "shutdown"
            /\ UNCHANGED <<combined, total_rows>>
       ELSE /\ pc' = pc
            /\ total_rows' = total_rows + futures[i].outcome.rows
            /\ combined' = MergeInto(combined, futures[i].outcome.table)
    /\ UNCHANGED <<inputs, di, futures, files_processed, result, output, scan, clock>>

\* return combined, total_rows
ReturnChunks ==
    /\ entry = "process_file_parallel"
    /\ pc = "collect"
    /\ Yielded = 1..Len(futures)
    /\ pc' = "returned"
    /\ result' = [NoResult EXCEPT !.kind = "returned", !.table = combined,
                                  !.total_rows = total_rows]
    /\ UNCHANGED <<inputs, di, futures, yielded, combined, total_rows,
                   files_processed, output, scan, clock>>

(***************************************************************************)
(* One file read row by row: the loop of process_file_chunk over the whole *)
(* file and the loop of read_log_file, each at its own pace.               *)
(***************************************************************************)
WorkerRow ==
    /\ entry = "scan"
    /\ HasNext(scan.worker, scan.rows, 0, 0)
    /\ scan' = [scan EXCEPT !.worker =
                   RowStep(@, scan.rows[scan.worker.rows_read + 1], req)]
    /\ UNCHANGED <<inputs, pc, di, futures, yielded, combined, total_rows,
                   files_processed, result, output, clock>>

ReaderRow ==
    /\ entry = "scan"
    /\ ~scan.reader.raised
    /\ scan.read < Len(scan.rows)
    /\ scan' = [scan EXCEPT !.reader = ReadRowStep(@, scan.rows[scan.read + 1], req),
                            !.read = @ + 1]
    /\ UNCHANGED <<inputs, pc, di, futures, yielded, combined, total_rows,
                   files_processed, result, output, clock>>

(***************************************************************************)
(* get_period_start applied to a timestamp, and to its own result.         *)
(***************************************************************************)
ApplyPeriod ==
    /\ entry = "period"
    /\ clock.applied = 0
    /\ clock' = [clock EXCEPT
                   !.period = get_period_start(clock.timestamp, clock.granularity),
                   !.applied = 1]
    /\ UNCHANGED <<inputs, pc, di, futures, yielded, combined, total_rows,
                   files_processed, result, output, scan>>

ReapplyPeriod ==
    /\ entry = "period"
    /\ clock.applied = 1
    /\ clock' = [clock EXCEPT
                   !.again = get_period_start(clock.period, clock.granularity),
                   !.applied = 2]
    /\ UNCHANGED <<inputs, pc, di, futures, yielded, combined, total_rows,
                   files_processed, result, output, scan>>

(***************************************************************************)
(* write_results and main.                                                 *)
(***************************************************************************)
\* Python's order on the user and app names of the model (code points)
NameOrder == <<"a1", "a2", "a3", "u1", "u2">>
NameRank(name) == CHOOSE i \in 1..Len(NameOrder) : NameOrder[i] = name

\* str < str on two period strings: fixed width, so field by field
PeriodLess(p, q) ==
    \E i \in 1..4 : p[i] < q[i] /\ \A j \in 1..(i - 1) : p[j] = q[j]

\* tuple < tuple on two keys of one table
KeyLess(a, b) ==
    \/ PeriodLess(a[1], b[1])
    \/ /\ a[1] = b[1]
       /\ \E i \in 2..Len(a) :
            /\ NameRank(a[i]) < NameRank(b[i])
            /\ \A j \in 2..(i - 1) : a[j] = b[j]

\* SortedKeys with reverse=True: the largest key first
RECURSIVE SortedKeysReversed(_)
SortedKeysReversed(keys) ==
    IF keys = {} THEN <<>>
    ELSE LET first == CHOOSE k \in keys : \A o \in keys \ {k} : KeyLess(o, k)
         IN  <<first>> \o SortedKeysReversed(keys \ {first})

\* sorted(aggregated.keys())
RECURSIVE SortedKeys(_)
SortedKeys(keys) ==
    IF keys = {} THEN <<>>
    ELSE LET first == CHOOSE k \in keys : \A o \in keys \ {k} : KeyLess(k, o)
         IN  <<first>> \o SortedKeys(keys \ {first})

METRIC_COLUMNS ==
    <<"metric_1", "metric_2", "metric_3", "metric_4", "metric_5", "metric_6",
      "metric_7", "metric_8", "metric_9">>

\* write_results: the header and one row per key, list(key) + aggregated[key]
write_results(aggregated, dimensions) ==
    LET sorted_keys == SortedKeys(DOMAIN aggregated)
    IN  [written |-> TRUE,
         header |-> <<"timestamp">>
                      \o (IF InList("user", dimensions) THEN <<"user">> ELSE <<>>)
                      \o (IF InList("app", dimensions) THEN <<"app">> ELSE <<>>)
                      \o METRIC_COLUMNS,
         rows |-> [n \in 1..Len(sorted_keys) |->
                      sorted_keys[n] \o aggregated[sorted_keys[n]]]]

\* main, after aggregate_data_parallel returned: "if aggregated:" writes the
\* results.  An exception of aggregate_data_parallel is not caught: main ends.
Emit ==
    /\ entry = "aggregate_data_parallel"
    /\ pc = "returned"
    /\ pc' = "done"
    /\ output' = IF DOMAIN result.table # {}
                 THEN write_results(result.table, req.dimensions)
                 ELSE output
    /\ UNCHANGED <<inputs, di, futures, yielded, combined, total_rows,
                   files_processed, result, scan, clock>>

(***************************************************************************)
(* Inputs of the aggregation requests.                                     *)
(***************************************************************************)
Ones == <<"1", "1", "1", "1", "1", "1", "1", "1", "1">>
Twos == <<"2", "2", "2", "2", "2", "2", "2", "2", "2">>
Mixed == <<"1", "2", "3", "0", "7", "-1", "1", "2", "3">>
NotInt == <<"1", "1", "1", "1", "x", "1", "1", "1", "1">>

Row(timestamp, user, app, metrics) == <<timestamp, user, app>> \o metrics

WindowFrom == <<1, 0, 0, 0>>
WindowTo == <<NumDays, 12, 0, 0>>

RowA == Row(<<1, 0, 47, 0>>, "u1", "a1", Ones)
RowB == Row(<<1, 0, 10, 0>>, "u1", "a2", Twos)
RowC == Row(<<2, 11, 59, 59>>, "u2", "a1", Mixed)
RowBadMetric == Row(<<1, 0, 47, 0>>, "u1", "a1", NotInt)
RowShort == <<<<1, 0, 47, 0>>, "u1", "a1", "1", "1", "1", "1", "1", "1", "1", "1">>
RowAtTo == Row(WindowTo, "u1", "a1", Ones)

\* the day files a directory of the model may hold
DayFiles ==
    {Missing, File(<<RowA>>), File(<<RowB, RowA>>), File(<<RowC, RowShort>>),
     File(<<RowAtTo, RowB>>), File(<<RowA, RowBadMetric>>)}

Request(from, to, granularity, dimensions, users, apps, threads) ==
    [filepath |-> 0, from_dt |-> parse_datetime(from), to_dt |-> parse_datetime(to),
     granularity |-> granularity, dimensions |-> dimensions,
     user_filter |-> users, app_filter |-> apps, num_threads |-> threads]

\* the whole directory; a range that ends on a day after the last file and
\* starts after the first records; a range whose end lies before its start
Windows ==
    {<<WindowFrom, WindowTo>>,
     <<<<1, 0, 30, 0>>, <<NumDays + 1, 0, 0, 0>>>>,
     <<<<2, 0, 0, 0>>, <<1, 12, 0, 0>>>>}

OnlyU1 == [supplied |-> TRUE, values |-> {"u1"}]

\* the state of a call before its first statement
Idle ==
    /\ pc = "start"
    /\ di = 0
    /\ futures = <<>>
    /\ yielded = <<>>
    /\ combined = EmptyTable
    /\ total_rows = 0
    /\ files_processed = 0
    /\ result = NoResult
    /\ output = NoOutput

Init ==
    /\ entry = "aggregate_data_parallel"
    /\ logs \in [Dates -> DayFiles]
    /\ \E w \in Windows, g \in Granularities,
          d \in {<<"user">>, <<"user", "app">>}, u \in {NoFilter, OnlyU1},
          n \in 1..MaxThreads :
          req = Request(w[1], w[2], g, d, u, NoFilter, n)
    /\ Idle
    /\ scan = NoScan
    /\ clock = NoClock

Next ==
    \/ OpenPool
    \/ SubmitFile
    \/ \E i \in 1..Len(futures) : StartWork(i)
    \/ \E i \in 1..Len(futures) : FinishWork(i)
    \/ \E i \in 1..Len(futures) : CollectFile(i)
    \/ ReturnAggregate
    \/ Shutdown
    \/ Emit

Spec == Init /\ [][Next]_vars

(***************************************************************************)
(* aggregate_data_parallel called as the engine entry point, with every    *)
(* granularity text and dimension list a caller can pass (main lets        *)
(* through only '30m' and '1day' and a non-empty list of 'user' and        *)
(* 'app').                                                                 *)
(***************************************************************************)
GranularityTexts == Granularities \cup {"1h"}

DimensionLists ==
    {<<>>, <<"user">>, <<"app">>, <<"user", "app">>, <<"app", "user">>}

RequestFiles == {Missing, File(<<RowB, RowA>>), File(<<RowC, RowShort>>)}

InitRequest ==
    /\ entry = "aggregate_data_parallel"
    /\ logs \in [Dates -> RequestFiles]
    /\ \E g \in GranularityTexts, d \in DimensionLists, u \in {NoFilter, OnlyU1},
          n \in 1..MaxThreads :
          req = Request(WindowFrom, WindowTo, g, d, u, NoFilter, n)
    /\ Idle
    /\ scan = NoScan
    /\ clock = NoClock

SpecRequest == InitRequest /\ [][Next]_vars

(***************************************************************************)
(* aggregate_data_parallel as a function of the directory and the request: *)
(* the files of the range in submission order, each processed whole, the   *)
(* tables merged; the first exception ends the call.                       *)
(***************************************************************************)
RECURSIVE MergeFiles(_, _, _, _)
MergeFiles(acc, date_files, dir, r) ==
    IF acc.raised \/ date_files = <<>> THEN acc
    ELSE LET file == FileAt(dir, Head(date_files))
             out == process_file_chunk(file, r, 0, 0)
             next == IF ~file.exists THEN acc
                     ELSE IF out.raised THEN [acc EXCEPT !.raised = TRUE]
                     ELSE [raised |-> FALSE,
                           table |-> MergeInto(acc.table, out.table),
                           rows |-> acc.rows + out.rows]
         IN  MergeFiles(next, Tail(date_files), dir, r)

aggregate_data_parallel(dir, r) ==
    LET date_files == get_date_range(r.from_dt, r.to_dt)
        start == [raised |-> Min(r.num_threads, Len(date_files)) <= 0,
                  table |-> EmptyTable, rows |-> 0]
        done == MergeFiles(start, date_files, dir, r)
    IN  IF done.raised THEN [raised |-> TRUE, table |-> EmptyTable, rows |-> 0]
        ELSE done

(***************************************************************************)
(* Requests over every window between two instants of a small set, on a    *)
(* directory whose day files hold records of their own day (the files are  *)
(* per day: the generator stamps the records of <date>.log.csv with        *)
(* <date>).                                                                *)
(***************************************************************************)
SplitInstants ==
    {<<1, 0, 0, 0>>, <<1, 0, 47, 0>>, <<1, 12, 0, 0>>, <<2, 0, 0, 0>>,
     <<2, 12, 0, 0>>, <<NumDays + 1, 0, 0, 0>>}

FilesOfDay(d) ==
    {Missing,
     File(<<Row(<<d, 0, 47, 0>>, "u1", "a1", Ones),
            Row(<<d, 12, 0, 0>>, "u1", "a1", Twos)>>),
     File(<<Row(<<d, 11, 59, 59>>, "u2", "a1", Mixed)>>),
     File(<<Row(<<d, 0, 47, 0>>, "u1", "a1", Ones),
            Row(<<d, 12, 0, 0>>, "u1", "a1", NotInt)>>)}

InitSplit ==
    /\ entry = "aggregate_data_parallel"
    /\ logs \in [Dates -> UNION {FilesOfDay(d) : d \in Dates}]
    /\ \A d \in Dates : logs[d] \in FilesOfDay(d)
    /\ \E a \in SplitInstants, b \in SplitInstants, g \in Granularities,
          n \in {1, 2} :
          /\ Instant(parse_datetime(a)) <= Instant(parse_datetime(b))
          /\ req = Request(a, b, g, <<"user">>, NoFilter, NoFilter, n)
    /\ Idle
    /\ scan = NoScan
    /\ clock = NoClock

SpecSplit == InitSplit /\ [][Next]_vars

(***************************************************************************)
(* process_file_parallel on one file of up to MaxLines lines.              *)
(***************************************************************************)
RowD == Row(<<1, 13, 5, 0>>, "u2", "a3", Mixed)

RECURSIVE FilesUpTo(_, _)
FilesUpTo(alphabet, n) ==
    IF n = 0 THEN {<<>>}
    ELSE LET shorter == FilesUpTo(alphabet, n - 1)
         IN  shorter \cup {Append(f, x) : f \in shorter, x \in alphabet}

InitFile ==
    /\ entry = "process_file_parallel"
    /\ \/ \E rows \in FilesUpTo({RowA, RowD, RowBadMetric}, MaxLines) :
             logs = [d \in Dates |-> IF d = 1 THEN File(rows) ELSE Missing]
       \/ logs = [d \in Dates |-> Missing]
    /\ \E g \in Granularities, u \in {NoFilter, OnlyU1}, n \in 1..MaxThreads :
          req = [Request(WindowFrom, WindowTo, g, <<"user">>, u, NoFilter, n)
                    EXCEPT !.filepath = 1]
    /\ Idle
    /\ scan = NoScan
    /\ clock = NoClock

NextFile ==
    \/ CountLines
    \/ SubmitChunk
    \/ \E i \in 1..Len(futures) : StartWork(i)
    \/ \E i \in 1..Len(futures) : FinishWork(i)
    \/ \E i \in 1..Len(futures) : CollectChunk(i)
    \/ ReturnChunks
    \/ Shutdown

SpecFile == InitFile /\ [][NextFile]_vars

(***************************************************************************)
(* process_file_parallel on files at or above the row threshold, for the   *)
(* plan of the chunks: up to MaxPlanLines lines among up to MaxPlanThreads *)
(* workers.  The lines are alike; the last one may hold a bad metric.      *)
(***************************************************************************)
MaxPlanLines == 6     \* longest file whose chunk plan is examined
MaxPlanThreads == 4   \* largest worker count of a chunk plan

PlanFile(n, last) == File([k \in 1..n |-> IF k = n THEN last ELSE RowA])

InitPlan ==
    /\ entry = "process_file_parallel"
    /\ \E total \in ROW_THRESHOLD..MaxPlanLines, last \in {RowA, RowBadMetric} :
          logs = [d \in Dates |-> IF d = 1 THEN PlanFile(total, last) ELSE Missing]
    /\ \E n \in 2..MaxPlanThreads :
          req = [Request(WindowFrom, WindowTo, "30m", <<"user">>, NoFilter, NoFilter, n)
                    EXCEPT !.filepath = 1]
    /\ Idle
    /\ scan = NoScan
    /\ clock = NoClock

SpecPlan == InitPlan /\ [][NextFile]_vars

(***************************************************************************)
(* aggregate_data_parallel over day files below, at and above the row      *)
(* threshold.                                                              *)
(***************************************************************************)
LargeFiles ==
    {Missing, PlanFile(1, RowA), PlanFile(ROW_THRESHOLD, RowA),
     PlanFile(ROW_THRESHOLD + 1, RowA), PlanFile(ROW_THRESHOLD + 1, RowBadMetric)}

InitLarge ==
    /\ entry = "aggregate_data_parallel"
    /\ logs \in [Dates -> LargeFiles]
    /\ \E n \in 1..MaxThreads :
          req = Request(WindowFrom, WindowTo, "1day", <<"user">>, NoFilter, NoFilter, n)
    /\ Idle
    /\ scan = NoScan
    /\ clock = NoClock

SpecLarge == InitLarge /\ [][Next]_vars

(***************************************************************************)
(* Scheduling.  The calling thread and the pool threads are threads of the *)
(* operating system: each of them, when it can take a step, eventually     *)
(* takes one.  The content of a file decides only whether its worker       *)
(* returns or raises, so the files are one line long.                      *)
(***************************************************************************)
Coordinator ==
    \/ OpenPool
    \/ SubmitFile
    \/ \E i \in 1..Len(futures) : CollectFile(i)
    \/ ReturnAggregate
    \/ Shutdown
    \/ Emit

InitFair ==
    /\ entry = "aggregate_data_parallel"
    /\ logs \in [Dates -> {Missing, File(<<RowA>>), File(<<RowBadMetric>>)}]
    /\ \E w \in Windows, n \in {1, 2} :
          req = Request(w[1], w[2], "30m", <<"user">>, NoFilter, NoFilter, n)
    /\ Idle
    /\ scan = NoScan
    /\ clock = NoClock

FairSpec ==
    /\ InitFair
    /\ [][Next]_vars
    /\ WF_vars(Coordinator)
    /\ \A i \in 1..NumDays : WF_vars(StartWork(i))
    /\ \A i \in 1..NumDays : WF_vars(FinishWork(i))

(***************************************************************************)
(* Row-by-row scans: every shape of row under every filter setting.        *)
(***************************************************************************)
ScanFrom == <<1, 6, 0, 0>>
ScanTo == <<2, 6, 0, 0>>

\* timestamp texts: before from, from, inside, one second before to, to,
\* after to, and two texts strptime rejects
ScanTimestamps ==
    {<<1, 5, 59, 59>>, ScanFrom, <<1, 18, 47, 10>>, <<2, 5, 59, 59>>, ScanTo,
     <<2, 6, 0, 1>>, <<1, 24, 0, 0>>, <<1, 18, 60, 0>>}

ShortRow(timestamp, user, app) == <<timestamp, user, app>> \o SubSeq(Ones, 1, 8)

ScanRows ==
    {Row(t, u, a, m) : t \in ScanTimestamps, u \in Users, a \in Apps,
                       m \in {Ones, NotInt}}
    \cup {ShortRow(t, u, "a1") : t \in {ScanFrom, <<1, 24, 0, 0>>}, u \in Users}
    \cup {<<>>}

ScanFilters(names) ==
    {NoFilter, [supplied |-> TRUE, values |-> {}]}
    \cup {[supplied |-> TRUE, values |-> v] : v \in names}

InitScan ==
    /\ entry = "scan"
    /\ logs = [d \in Dates |-> Missing]
    /\ \E u \in ScanFilters({{"u1"}}), a \in ScanFilters({{"a1", "a2"}}) :
          req = Request(ScanFrom, ScanTo, "30m", <<"user", "app">>, u, a, 1)
    /\ Idle
    /\ \E first \in {<<>>, <<Row(ScanFrom, "u1", "a1", Twos)>>}, row \in ScanRows :
          scan = [NoScan EXCEPT !.rows = first \o <<row>>]
    /\ clock = NoClock

NextScan ==
    \/ WorkerRow
    \/ ReaderRow

SpecScan == InitScan /\ [][NextScan]_vars

(***************************************************************************)
(* get_period_start over the timestamps of a day.                          *)
(***************************************************************************)
InitPeriod ==
    /\ entry = "period"
    /\ logs = [d \in Dates |-> Missing]
    /\ req = Request(WindowFrom, WindowTo, "30m", <<"user">>, NoFilter, NoFilter, 1)
    /\ Idle
    /\ scan = NoScan
    /\ \E d \in Dates, h \in {0, 13, 23}, m \in 0..59, sec \in {0, 1, 59},
          g \in Granularities :
          clock = [NoClock EXCEPT
                     !.timestamp = parse_datetime(<<d, h, m, sec>>),
                     !.granularity = g]

NextPeriod ==
    \/ ApplyPeriod
    \/ ReapplyPeriod

SpecPeriod == InitPeriod /\ [][NextPeriod]_vars

(***************************************************************************)
(* The records a request accepts, stated from the request alone.           *)
(***************************************************************************)
\* at least 12 fields, a timestamp that parses and lies in [from, to), and a
\* user and an app that pass the filters that are in force
Accepted(row, r) ==
    /\ Len(row) >= 12
    /\ (r.user_filter.supplied /\ r.user_filter.values # {})
          => row[2] \in r.user_filter.values
    /\ (r.app_filter.supplied /\ r.app_filter.values # {})
          => row[3] \in r.app_filter.values
    /\ CanParse(row[1])
    /\ Instant(r.from_dt) <= Instant(parse_datetime(row[1]))
    /\ Instant(parse_datetime(row[1])) < Instant(r.to_dt)

KeyOf(row, r) ==
    BuildKey(strftime(get_period_start(parse_datetime(row[1]), r.granularity)),
             row[2], row[3], r.dimensions)

\* the dates of the range whose file exists
ExistingDates ==
    LET date_files == get_date_range(req.from_dt, req.to_dt)
    IN  {date_files[n] : n \in {m \in 1..Len(date_files) :
                                   FileAt(logs, date_files[m]).exists}}

\* <<date, line>> of every accepted record of the existing files of the range
AcceptedRecords ==
    UNION {{<<d, n>> : n \in {m \in 1..Len(logs[d].rows) :
                                 Accepted(logs[d].rows[m], req)}} :
           d \in ExistingDates}

RecordAt(o) == logs[o[1]].rows[o[2]]

RECURSIVE SumMetric(_, _)
SumMetric(records, i) ==
    IF records = {} THEN 0
    ELSE LET o == CHOOSE x \in records : TRUE
         IN  IntText[RecordAt(o)[i + 3]] + SumMetric(records \ {o}, i)

(***************************************************************************)
(* C1: whatever the order in which the workers complete, the table         *)
(* aggregate_data_parallel returns has exactly the keys of the accepted    *)
(* records of the existing day files of the range, each key holds the      *)
(* element-wise sum of the metrics of the accepted records with that key   *)
(* (also across files), and rowsMatched is the number of accepted records. *)
(***************************************************************************)
C1_TableIsSumOfAccepted ==
    (entry = "aggregate_data_parallel" /\ result.kind = "returned") =>
        /\ DOMAIN result.table = {KeyOf(RecordAt(o), req) : o \in AcceptedRecords}
        /\ \A k \in DOMAIN result.table : \A i \in 1..9 :
              result.table[k][i] =
                 SumMetric({o \in AcceptedRecords : KeyOf(RecordAt(o), req) = k}, i)
        /\ result.total_rows = Cardinality(AcceptedRecords)

\* a returned request whose second file completed first and one of whose
\* keys sums records of two files
C1_Witness ==
    /\ entry = "aggregate_data_parallel"
    /\ result.kind = "returned"
    /\ Len(yielded) >= 2
    /\ yielded[1] > yielded[2]
    /\ \E o, q \in AcceptedRecords :
          /\ o[1] # q[1]
          /\ KeyOf(RecordAt(o), req) = KeyOf(RecordAt(q), req)

(***************************************************************************)
(* C2: for a fixed file and configuration, process_file_parallel returns   *)
(* the table and the accepted-row count that process_file_chunk returns    *)
(* for the whole file, for every worker count N >= 1, whether it processes *)
(* the file itself or splits it into N chunks; it raises only where        *)
(* process_file_chunk raises.                                              *)
(***************************************************************************)
C2_SameAsWholeFile ==
    (entry = "process_file_parallel" /\ FileAt(logs, req.filepath).exists) =>
        LET whole == process_file_chunk(FileAt(logs, req.filepath), req, 0, 0)
        IN  /\ result.kind = "returned" =>
                  /\ ~whole.raised
                  /\ result.table = whole.table
                  /\ result.total_rows = whole.rows
            /\ result.kind = "raised" => whole.raised

\* a file split among three workers, the last chunk completing first, with a
\* chunk shorter than chunk_size, that returned a table
C2_Witness ==
    /\ entry = "process_file_parallel"
    /\ result.kind = "returned"
    /\ Len(futures) >= 3
    /\ yielded[1] = Len(futures)
    /\ DOMAIN result.table # {}
    /\ result.total_rows = Len(FileAt(logs, req.filepath).rows)
    /\ \E i \in 1..Len(futures) :
          futures[i].outcome.rows_read < futures[i].chunk_size

(***************************************************************************)
(* C3: the chunks process_file_parallel hands to its workers (chunk i      *)
(* starts at line i * chunk_size and has chunk_size lines) are pairwise    *)
(* disjoint and together cover every line of the file, and each worker     *)
(* reads the lines of its chunk and no other: no line is skipped and no    *)
(* line is read by two workers.                                            *)
(***************************************************************************)
\* the lines (numbered from 1) of the chunk of a future
ChunkLines(fut) ==
    {n \in 1..Len(FileAt(logs, fut.filepath).rows) :
        fut.chunk_start < n /\ n <= fut.chunk_start + fut.chunk_size}

\* the lines the call of a future handed to its loop body
LinesRead(fut) == {fut.chunk_start + k : k \in 1..fut.outcome.rows_read}

C3_ChunksPartitionFile ==
    entry = "process_file_parallel" =>
        /\ \A i, j \in 1..Len(futures) :
              i # j => ChunkLines(futures[i]) \cap ChunkLines(futures[j]) = {}
        /\ pc \in {"collect", "shutdown", "returned", "raised"} /\ futures # <<>> =>
              UNION {ChunkLines(futures[i]) : i \in 1..Len(futures)}
                 = 1..Len(FileAt(logs, req.filepath).rows)
        /\ \A i \in Finished :
              /\ LinesRead(futures[i]) \subseteq ChunkLines(futures[i])
              /\ ~futures[i].outcome.raised =>
                    LinesRead(futures[i]) = ChunkLines(futures[i])

\* every chunk of a file of uneven split has been read to its end
C3_Witness ==
    /\ entry = "process_file_parallel"
    /\ pc = "returned"
    /\ Len(futures) >= 2
    /\ \E i \in 1..Len(futures) :
          /\ futures[i].outcome.rows_read > 0
          /\ futures[i].outcome.rows_read < futures[i].chunk_size
    /\ UNION {LinesRead(futures[i]) : i \in 1..Len(futures)}
          = 1..Len(FileAt(logs, req.filepath).rows)

(***************************************************************************)
(* C4: once a worker of an aggregation request has failed, the request     *)
(* fails: aggregate_data_parallel returns no table, neither the partial    *)
(* table merged so far nor the tables of the workers that ran to their     *)
(* end, main writes no output file, and when nothing is left to run the    *)
(* request has ended with the error.                                       *)
(***************************************************************************)
WorkerFailed == \E i \in Finished : futures[i].outcome.raised

\* no step of the request is left: no future is running (FinishWork needs
\* no more than that) and no other action is enabled
Stopped ==
    /\ Running = {}
    /\ ~ENABLED (\/ OpenPool
                 \/ SubmitFile
                 \/ \E i \in 1..Len(futures) : StartWork(i)
                 \/ \E i \in 1..Len(futures) : CollectFile(i)
                 \/ ReturnAggregate
                 \/ Shutdown
                 \/ Emit)

C4_FailedWorkerFailsRequest ==
    (entry = "aggregate_data_parallel" /\ WorkerFailed) =>
        /\ result.kind # "returned"
        /\ result.table = EmptyTable
        /\ pc \notin {"returned", "done"}
        /\ ~output.written
        /\ Stopped => (pc = "raised" /\ result.kind = "raised")

\* the request has raised although a sibling of the failed worker ran to
\* its end and produced a table, and a partial table had been merged
C4_Witness ==
    /\ entry = "aggregate_data_parallel"
    /\ pc = "raised"
    /\ WorkerFailed
    /\ combined # EmptyTable
    /\ \E i \in Finished : /\ ~futures[i].outcome.raised
                           /\ DOMAIN futures[i].outcome.table # {}
    /\ ~output.written

(***************************************************************************)
(* C10: a day of the range without a file is no error: only the days whose *)
(* file exists are submitted, filesProcessed is their number, the missing  *)
(* day contributes no record, the request raises only when a worker raised *)
(* or the range holds no date, and otherwise it runs to its end.           *)
(***************************************************************************)
C10_MissingDayIsNoError ==
    entry = "aggregate_data_parallel" =>
        /\ \A i \in 1..Len(futures) : FileAt(logs, futures[i].filepath).exists
        /\ result.kind = "returned" =>
              /\ result.files_processed = Cardinality(ExistingDates)
              /\ result.total_rows = Cardinality(AcceptedRecords)
        /\ result.kind = "raised" =>
              \/ WorkerFailed
              \/ get_date_range(req.from_dt, req.to_dt) = <<>>
        /\ Stopped => pc \in {"done", "raised"}

\* a request over a range with a missing day and an existing one that ended
\* with its output written
C10_Witness ==
    /\ entry = "aggregate_data_parallel"
    /\ pc = "done"
    /\ output.written
    /\ result.files_processed >= 1
    /\ result.files_processed < Len(get_date_range(req.from_dt, req.to_dt))
    /\ \E n \in 1..Len(get_date_range(req.from_dt, req.to_dt)) :
          /\ get_date_range(req.from_dt, req.to_dt)[n] \in DOMAIN logs
          /\ ~logs[get_date_range(req.from_dt, req.to_dt)[n]].exists

(***************************************************************************)
(* Steps of the two row loops, and the row each consumes.                  *)
(***************************************************************************)
WorkerReads == entry = "scan" /\ scan'.worker.rows_read = scan.worker.rows_read + 1
WorkerRowNow == scan.rows[scan.worker.rows_read + 1]
ReaderReads == entry = "scan" /\ scan'.read = scan.read + 1
ReaderRowNow == scan.rows[scan.read + 1]

\* the worker counted the row and folded it into its table
WorkerAccepts ==
    /\ scan'.worker.rows_processed = scan.worker.rows_processed + 1
    /\ scan'.worker.local_aggregated # scan.worker.local_aggregated
    /\ ~scan'.worker.raised

\* the worker dropped the row without a trace
WorkerSkips ==
    /\ scan'.worker.rows_processed = scan.worker.rows_processed
    /\ scan'.worker.local_aggregated = scan.worker.local_aggregated
    /\ ~scan'.worker.raised

ReaderAccepts ==
    /\ scan'.reader.aggregated # scan.reader.aggregated
    /\ ~scan'.reader.raised

ReaderSkips ==
    /\ scan'.reader.aggregated = scan.reader.aggregated
    /\ ~scan'.reader.raised

Unparseable(row) == Len(row) >= 12 /\ ~CanParse(row[1])

InWindow(row) ==
    /\ Instant(req.from_dt) <= Instant(parse_datetime(row[1]))
    /\ Instant(parse_datetime(row[1])) < Instant(req.to_dt)

(***************************************************************************)
(* C5: a line of a worker's partition with at least 12 fields one of whose *)
(* nine metric fields is not an integer makes the worker fail; it is never *)
(* silently dropped.                                                       *)
(***************************************************************************)
C5_MalformedMetricIsFatal ==
    entry = "scan" =>
        \A n \in 1..scan.worker.rows_read :
            (Len(scan.rows[n]) >= 12 /\ MetricsRaise(scan.rows[n]))
                => scan.worker.raised

(***************************************************************************)
(* C6: a line with fewer than 12 fields, or with a timestamp that does not *)
(* parse, is rejected silently by the worker: the step that reads it       *)
(* raises nothing and leaves the worker's table and its accepted-row count *)
(* as they were.                                                           *)
(***************************************************************************)
C6_MalformedLineIsSilent ==
    [][(WorkerReads /\ (Len(WorkerRowNow) < 12 \/ Unparseable(WorkerRowNow)))
          => WorkerSkips]_vars

\* the worker holds a table, has read a second line of 12 fields whose
\* timestamp does not parse (and whose metrics are not integers either), and
\* still holds the same single accepted row
C6_Witness ==
    /\ entry = "scan"
    /\ Len(scan.rows) = 2
    /\ scan.worker.rows_read = 2
    /\ Unparseable(scan.rows[2])
    /\ MetricsRaise(scan.rows[2])
    /\ ~FilteredOut(FilterSet(req.user_filter), scan.rows[2][2])
    /\ ~FilteredOut(FilterSet(req.app_filter), scan.rows[2][3])
    /\ scan.worker.rows_processed = 1
    /\ DOMAIN scan.worker.local_aggregated # {}
    /\ ~scan.worker.raised

(***************************************************************************)
(* C7: a record is in the window iff from <= timestamp < to, in the        *)
(* parallel worker and in the sequential reader alike: a record at from is *)
(* accepted, a record at to is rejected.                                   *)
(***************************************************************************)
\* a well-formed record that passes the user and app filters
PassesFilters(row) ==
    /\ ~FilteredOut(FilterSet(req.user_filter), row[2])
    /\ ~FilteredOut(FilterSet(req.app_filter), row[3])

WellFormed(row) == Len(row) >= 12 /\ CanParse(row[1]) /\ ~MetricsRaise(row)

C7_WindowHalfOpen ==
    [][/\ (WorkerReads /\ WellFormed(WorkerRowNow) /\ PassesFilters(WorkerRowNow))
          => IF InWindow(WorkerRowNow) THEN WorkerAccepts ELSE WorkerSkips
       /\ (ReaderReads /\ WellFormed(ReaderRowNow) /\ PassesFilters(ReaderRowNow))
          => IF InWindow(ReaderRowNow) THEN ReaderAccepts ELSE ReaderSkips]_vars

\* worker and reader have both read a record at from and then a record at
\* to, and both hold the first record only
C7_Witness ==
    /\ entry = "scan"
    /\ Len(scan.rows) = 2
    /\ WellFormed(scan.rows[2]) /\ PassesFilters(scan.rows[2])
    /\ scan.rows[1][1] = strftime(req.from_dt)
    /\ scan.rows[2][1] = strftime(req.to_dt)
    /\ scan.worker.rows_read = 2
    /\ scan.read = 2
    /\ scan.worker.rows_processed = 1
    /\ scan.worker.local_aggregated = scan.reader.aggregated
    /\ \A k \in DOMAIN scan.reader.aggregated :
          scan.reader.aggregated[k] = ParseMetrics(scan.rows[1])
    /\ DOMAIN scan.reader.aggregated # {}

(***************************************************************************)
(* C8: a record passes the user and app filters iff its user is in U and   *)
(* its app is in A, for the filter sets that are supplied and not empty;   *)
(* a filter that is absent, or supplied empty, leaves its field            *)
(* unconstrained.  Worker and reader alike.                                *)
(***************************************************************************)
InForce(filter) == filter.supplied /\ filter.values # {}

C8_FiltersCompose ==
    [][LET passes(row) ==
              /\ InForce(req.user_filter) => row[2] \in req.user_filter.values
              /\ InForce(req.app_filter) => row[3] \in req.app_filter.values
       IN  /\ (WorkerReads /\ WellFormed(WorkerRowNow) /\ InWindow(WorkerRowNow))
                 => IF passes(WorkerRowNow) THEN WorkerAccepts ELSE WorkerSkips
           /\ (ReaderReads /\ WellFormed(ReaderRowNow) /\ InWindow(ReaderRowNow))
                 => IF passes(ReaderRowNow) THEN ReaderAccepts ELSE ReaderSkips]_vars

\* under U = {u1} and A = {a1, a2}: (u1, a1) was accepted and then a record
\* of u1 with app a3 was dropped, by worker and reader
C8_Witness ==
    /\ entry = "scan"
    /\ req.user_filter = [supplied |-> TRUE, values |-> {"u1"}]
    /\ req.app_filter = [supplied |-> TRUE, values |-> {"a1", "a2"}]
    /\ Len(scan.rows) = 2
    /\ WellFormed(scan.rows[2]) /\ InWindow(scan.rows[2])
    /\ scan.rows[1][2] = "u1" /\ scan.rows[1][3] = "a1"
    /\ scan.rows[2][2] = "u1" /\ scan.rows[2][3] = "a3"
    /\ scan.worker.rows_read = 2
    /\ scan.read = 2
    /\ scan.worker.rows_processed = 1
    /\ scan.worker.local_aggregated = scan.reader.aggregated
    /\ DOMAIN scan.reader.aggregated # {}
    /\ ~scan.worker.raised /\ ~scan.reader.raised

(***************************************************************************)
(* C9: get_period_start rounds a timestamp down to its bucket boundary.    *)
(* With 30m it keeps date and hour, sets the minute to                     *)
(* 30 * floor(minute / 30) and the second to 0 (00:47:00 gives 00:30:00);  *)
(* with 1day it gives midnight of the same date.  The result is never      *)
(* later than the timestamp, and the function maps its result to itself.   *)
(***************************************************************************)
C9_PeriodStartRoundsDown ==
    (entry = "period" /\ clock.applied >= 1) =>
        LET t == clock.timestamp
            p == clock.period
        IN  /\ p.date = t.date
            /\ clock.granularity = "30m" =>
                  /\ p.hour = t.hour
                  /\ p.minute \in {0, 30}
                  /\ p.minute <= t.minute /\ t.minute < p.minute + 30
                  /\ p.second = 0
            /\ clock.granularity = "1day" =>
                  p.hour = 0 /\ p.minute = 0 /\ p.second = 0
            /\ (t.hour = 0 /\ t.minute = 47 /\ t.second = 0
                   /\ clock.granularity = "30m") =>
                  strftime(p) = <<t.date, 0, 30, 0>>
            /\ Instant(p) <= Instant(t)
            /\ clock.applied = 2 => clock.again = p

\* 00:47:00 has been rounded to 00:30:00, and 00:30:00 to itself
C9_Witness ==
    /\ entry = "period"
    /\ clock.applied = 2
    /\ clock.granularity = "30m"
    /\ strftime(clock.timestamp) = <<1, 0, 47, 0>>
    /\ strftime(clock.period) = <<1, 0, 30, 0>>
    /\ clock.again = clock.period

(***************************************************************************)
(* C11: an aggregation request made with a granularity other than '30m' or *)
(* '1day', or with an empty dimension list, never returns a table: it ends *)
(* with an error, whatever the files hold.                                 *)
(***************************************************************************)
BadRequest == InvalidGranularity(req.granularity) \/ req.dimensions = <<>>

C11_BadRequestAborts ==
    (entry = "aggregate_data_parallel" /\ BadRequest) =>
        /\ result.kind # "returned"
        /\ pc \notin {"returned", "done"}

(***************************************************************************)
(* C12: the rows write_results emits are one per key of the final table,   *)
(* in ascending lexicographic order of the key (period, then user, then    *)
(* app), each row being the key followed by the nine metric sums in the    *)
(* order metric_1..metric_9.  The row sequence is fixed by the files and   *)
(* the request alone: worker count and completion order do not enter it.   *)
(***************************************************************************)
\* the key fields of an emitted row
RowKey(row) == SubSeq(row, 1, Len(row) - 9)

\* lexicographic order of two keys: the instants of the periods, then the
\* names field by field
KeyBefore(a, b) ==
    LET pa == Instant(parse_datetime(a[1]))
        pb == Instant(parse_datetime(b[1]))
    IN  \/ pa < pb
        \/ /\ pa = pb
           /\ \E i \in 2..Len(a) :
                /\ NameRank(a[i]) < NameRank(b[i])
                /\ \A j \in 2..(i - 1) : a[j] = b[j]

C12_RowsSortedOnePerKey ==
    (entry = "aggregate_data_parallel" /\ output.written) =>
        LET keys == {KeyOf(RecordAt(o), req) : o \in AcceptedRecords}
        IN  /\ Len(output.rows) = Cardinality(keys)
            /\ {RowKey(output.rows[n]) : n \in 1..Len(output.rows)} = keys
            /\ \A n \in 1..Len(output.rows) :
                  /\ RowKey(output.rows[n]) \in DOMAIN result.table
                  /\ output.rows[n] =
                        RowKey(output.rows[n]) \o result.table[RowKey(output.rows[n])]
                  /\ \A i \in 1..9 :
                        output.rows[n][Len(output.rows[n]) - 9 + i] =
                           SumMetric({o \in AcceptedRecords :
                                         KeyOf(RecordAt(o), req)
                                            = RowKey(output.rows[n])}, i)
            /\ \A n, m \in 1..Len(output.rows) :
                  n < m => KeyBefore(RowKey(output.rows[n]), RowKey(output.rows[m]))
            /\ SubSeq(output.header, Len(output.header) - 8, Len(output.header))
                  = METRIC_COLUMNS

\* three rows or more were written by a request of several workers whose
\* second file completed first; two rows share the period and the user and
\* differ in the app
C12_Witness ==
    /\ entry = "aggregate_data_parallel"
    /\ output.written
    /\ req.num_threads >= 2
    /\ Len(yielded) >= 2
    /\ yielded[1] > yielded[2]
    /\ Len(output.rows) >= 3
    /\ \E n \in 1..(Len(output.rows) - 1) :
          /\ Len(output.rows[n]) = 12
          /\ output.rows[n][1] = output.rows[n + 1][1]
          /\ output.rows[n][2] = output.rows[n + 1][2]
          /\ output.rows[n][3] # output.rows[n + 1][3]

(***************************************************************************)
(* C13: every aggregation key is the period-start string followed by the   *)
(* selected dimension values, user before app, however the caller orders   *)
(* the dimension list: 'app,user' gives the keys and the table of          *)
(* 'user,app'.  The header of the output lists the dimension columns in    *)
(* the same order.                                                         *)
(***************************************************************************)
HasDim(name) == \E n \in 1..Len(req.dimensions) : req.dimensions[n] = name

\* the dimension list with user before app
UserThenApp ==
    (IF HasDim("user") THEN <<"user">> ELSE <<>>)
        \o (IF HasDim("app") THEN <<"app">> ELSE <<>>)

\* period, then the user if selected, then the app if selected
KeyShape(k) ==
    /\ Len(k) = 1 + Len(UserThenApp)
    /\ CanParse(k[1])
    /\ \A n \in 1..Len(UserThenApp) :
          k[n + 1] \in (IF UserThenApp[n] = "user" THEN Users ELSE Apps)

C13_UserBeforeApp ==
    entry = "aggregate_data_parallel" =>
        /\ \A i \in Finished : \A k \in DOMAIN futures[i].outcome.table : KeyShape(k)
        /\ \A k \in DOMAIN combined : KeyShape(k)
        /\ (result.kind = "returned" /\ ~InvalidGranularity(req.granularity)) =>
              result.table =
                 aggregate_data(logs, [req EXCEPT !.dimensions = UserThenApp]).aggregated
        /\ output.written =>
              /\ output.header = <<"timestamp">> \o UserThenApp \o METRIC_COLUMNS
              /\ \A n \in 1..Len(output.rows) : KeyShape(RowKey(output.rows[n]))

\* a request for 'app,user' has written rows whose second field is a user
\* and whose third field is an app
C13_Witness ==
    /\ entry = "aggregate_data_parallel"
    /\ req.dimensions = <<"app", "user">>
    /\ output.written
    /\ output.header[2] = "user" /\ output.header[3] = "app"
    /\ Len(output.rows) >= 2
    /\ \A n \in 1..Len(output.rows) :
          output.rows[n][2] \in Users /\ output.rows[n][3] \in Apps

(***************************************************************************)
(* C14: for a window [from, to) and an instant mid with from <= mid <= to, *)
(* the tables of the requests for [from, mid) and for [mid, to) over the   *)
(* same directory, summed key by key, are the table of the request for     *)
(* [from, to), and the accepted-row counts add up; the request for the     *)
(* whole window raises only if one of the two raises.  Each of the three   *)
(* tables is what aggregate_data_parallel returns for its window.  The     *)
(* same holds file by file for process_file_chunk.                         *)
(***************************************************************************)
\* the instants at which the window of the request can be split
MidPoints ==
    {parse_datetime(t) : t \in {x \in SplitInstants :
        /\ Instant(req.from_dt) <= Instant(parse_datetime(x))
        /\ Instant(parse_datetime(x)) <= Instant(req.to_dt)}}

Before(mid) == aggregate_data_parallel(logs, [req EXCEPT !.to_dt = mid])
After(mid) == aggregate_data_parallel(logs, [req EXCEPT !.from_dt = mid])

C14_SplitWindowAddsUp ==
    entry = "aggregate_data_parallel" =>
        /\ result.kind = "returned" =>
              /\ ~aggregate_data_parallel(logs, req).raised
              /\ result.table = aggregate_data_parallel(logs, req).table
              /\ result.total_rows = aggregate_data_parallel(logs, req).rows
              /\ \A mid \in MidPoints :
                    /\ ~Before(mid).raised /\ ~After(mid).raised
                    /\ MergeInto(Before(mid).table, After(mid).table) = result.table
                    /\ Before(mid).rows + After(mid).rows = result.total_rows
        /\ result.kind = "raised" =>
              /\ aggregate_data_parallel(logs, req).raised
              /\ \A mid \in MidPoints : Before(mid).raised \/ After(mid).raised
        /\ \A d \in Dates : \A mid \in MidPoints :
              LET whole == process_file_chunk(logs[d], req, 0, 0)
                  first == process_file_chunk(logs[d], [req EXCEPT !.to_dt = mid], 0, 0)
                  second == process_file_chunk(logs[d], [req EXCEPT !.from_dt = mid], 0, 0)
              IN  IF whole.raised THEN first.raised \/ second.raised
                  ELSE /\ ~first.raised /\ ~second.raised
                       /\ MergeInto(first.table, second.table) = whole.table
                       /\ first.rows + second.rows = whole.rows

\* a returned request whose window splits at the instant of an accepted
\* record into two windows that both hold records, with a key in both tables
C14_Witness ==
    /\ entry = "aggregate_data_parallel"
    /\ result.kind = "returned"
    /\ \E mid \in MidPoints :
          /\ Instant(req.from_dt) < Instant(mid)
          /\ Instant(mid) < Instant(req.to_dt)
          /\ \E o \in AcceptedRecords : parse_datetime(RecordAt(o)[1]) = mid
          /\ DOMAIN Before(mid).table \cap DOMAIN After(mid).table # {}
          /\ Before(mid).rows >= 1
          /\ After(mid).rows >= 2

(***************************************************************************)
(* C15: the error a failed worker makes an aggregation request surface to  *)
(* the caller names the file, and the line, that caused it.                *)
(***************************************************************************)
C15_ErrorNamesFileAndLine ==
    (entry = "aggregate_data_parallel" /\ result.kind = "raised" /\ WorkerFailed) =>
        /\ result.error.filename = futures[yielded[Len(yielded)]].filepath
        /\ result.error.line >= 1

(***************************************************************************)
(* C16: in an aggregation request merging starts only after every          *)
(* submitted partition has completed: while a partition is queued or       *)
(* running, no partial table has been folded into the combined table.      *)
(***************************************************************************)
C16_MergeAfterAllComplete ==
    (entry = "aggregate_data_parallel" /\ yielded # <<>>) =>
        Finished = 1..Len(futures)

(***************************************************************************)
(* C16, as the code has it: merging starts after the last partition has    *)
(* been submitted; a partial table is folded into the combined table only  *)
(* after its own worker has completed, while other partitions may still be *)
(* queued or running; the combined table is the sum of the tables folded   *)
(* so far, and the request returns only after every partition has been     *)
(* folded.                                                                 *)
(***************************************************************************)
\* the tables of the first n futures as_completed yielded, merged in order
RECURSIVE MergedSoFar(_)
MergedSoFar(n) ==
    IF n = 0 THEN EmptyTable
    ELSE IF futures[yielded[n]].outcome.raised THEN MergedSoFar(n - 1)
    ELSE MergeInto(MergedSoFar(n - 1), futures[yielded[n]].outcome.table)

C16_MergeEachAfterItsWorker ==
    entry = "aggregate_data_parallel" =>
        /\ Yielded \subseteq Finished
        /\ pc \in {"start", "submit"} => yielded = <<>>
        /\ combined = MergedSoFar(Len(yielded))
        /\ result.kind = "returned" => Yielded = 1..Len(futures)

\* a partial table has been folded into the combined table while another
\* partition of the request is still running
C16_Witness ==
    /\ entry = "aggregate_data_parallel"
    /\ pc = "collect"
    /\ combined # EmptyTable
    /\ Running # {}

(***************************************************************************)
(* C17: a step of a worker writes the table of that worker and no other    *)
(* table; the combined table is written by the coordinating thread only,   *)
(* in its collect loop, and only with the table of a worker that has       *)
(* completed; the table of a completed worker is never written again.  No  *)
(* table is written by two threads; no step takes a lock                   *)
(* (aggregation_lock is created and never acquired).                       *)
(***************************************************************************)
\* the futures a step changes
Touched == {i \in 1..Len(futures) : futures'[i] # futures[i]}

C17_TablesHaveOneWriter ==
    [][entry = "aggregate_data_parallel" =>
          /\ Len(futures') = Len(futures) =>
                /\ Cardinality(Touched) <= 1
                /\ Touched # {} => combined' = combined
                /\ \A i \in Finished : futures'[i] = futures[i]
                /\ \A i \in Touched :
                      futures'[i].outcome # futures[i].outcome => i \in Running
          /\ Len(futures') # Len(futures) =>
                /\ combined' = combined
                /\ \A i \in 1..Len(futures) : futures'[i] = futures[i]
          /\ combined' # combined =>
                /\ pc = "collect"
                /\ \E i \in Finished \ Yielded :
                      /\ yielded' = Append(yielded, i)
                      /\ combined' = MergeInto(combined, futures[i].outcome.table)]_vars

\* the coordinating thread has folded the table of one completed worker
\* into the combined table, while a second worker holds a finished table of
\* its own that is not yet in it
C17_Witness ==
    /\ entry = "aggregate_data_parallel"
    /\ Len(yielded) = 1
    /\ DOMAIN combined # {}
    /\ combined = futures[yielded[1]].outcome.table
    /\ \E i \in Finished \ Yielded :
          /\ DOMAIN futures[i].outcome.table # {}
          /\ futures[i].outcome.table # combined

(***************************************************************************)
(* C18: when process_file_parallel splits a file of total lines among N    *)
(* workers, N-1 of the N chunks hold exactly ceil(total/N) lines and the   *)
(* last chunk holds the remaining total - (N-1)*ceil(total/N) lines.       *)
(***************************************************************************)
PlanTotal == Len(FileAt(logs, req.filepath).rows)
PlanCeil == (PlanTotal + req.num_threads - 1) \div req.num_threads
Planned == entry = "process_file_parallel" /\ Len(futures) = req.num_threads

C18_AllButLastChunkFull ==
    Planned =>
        /\ \A i \in 1..(Len(futures) - 1) :
              Cardinality(ChunkLines(futures[i])) = PlanCeil
        /\ Cardinality(ChunkLines(futures[Len(futures)]))
              = PlanTotal - (Len(futures) - 1) * PlanCeil

(***************************************************************************)
(* C18, as the code has it: chunk i (from 0) holds the lines from          *)
(* i * c up to min((i + 1) * c, total), with c = ceil(total/N): the first  *)
(* total div c chunks hold c lines, the next one the total mod c lines     *)
(* left, and the chunks after it none.  A worker reads exactly the lines   *)
(* of its chunk.  When (N-1) * c <= total this is N-1 chunks of c lines    *)
(* and the remainder in the last.                                          *)
(***************************************************************************)
\* lines of the chunk at position i (from 1) of the plan
PlanLines(i) ==
    IF i <= PlanTotal \div PlanCeil THEN PlanCeil
    ELSE IF i = PlanTotal \div PlanCeil + 1 THEN PlanTotal % PlanCeil
    ELSE 0

C18_ChunksFullThenRestThenEmpty ==
    entry = "process_file_parallel" =>
        /\ \A i \in 1..Len(futures) :
              /\ futures[i].chunk_size = PlanCeil
              /\ futures[i].chunk_start = (i - 1) * PlanCeil
              /\ Cardinality(ChunkLines(futures[i])) = PlanLines(i)
              /\ (i \in Finished /\ ~futures[i].outcome.raised) =>
                    futures[i].outcome.rows_read = PlanLines(i)
        /\ (Planned /\ (req.num_threads - 1) * PlanCeil <= PlanTotal) =>
              /\ \A i \in 1..(Len(futures) - 1) : PlanLines(i) = PlanCeil
              /\ PlanLines(Len(futures))
                    = PlanTotal - (Len(futures) - 1) * PlanCeil

\* five lines among four workers: chunks of 2, 2, 1 and 0 lines, all read
C18_Witness ==
    /\ entry = "process_file_parallel"
    /\ pc = "returned"
    /\ Len(futures) = 4
    /\ PlanTotal = 5
    /\ futures[3].outcome.rows_read = 1
    /\ futures[4].outcome.rows_read = 0
    /\ result.total_rows = 5

(***************************************************************************)
(* C19: in an aggregation request every existing day file is a work item   *)
(* of the pool; a file is split into intra-file chunks exactly when its    *)
(* line count exceeds the row threshold and more than one worker is        *)
(* configured, and any other file is processed as one partition.           *)
(***************************************************************************)
\* the futures that work on the file of a date
PartsOf(d) == {i \in 1..Len(futures) : futures[i].filepath = d}

C19_LargeFilesAreSplit ==
    (entry = "aggregate_data_parallel" /\ pc \in {"collect", "returned", "done"}) =>
        \A d \in ExistingDates :
            IF Len(logs[d].rows) > ROW_THRESHOLD /\ req.num_threads > 1
            THEN /\ Cardinality(PartsOf(d)) > 1
                 /\ \A i \in PartsOf(d) : futures[i].chunk_size # 0
            ELSE /\ Cardinality(PartsOf(d)) = 1
                 /\ \A i \in PartsOf(d) :
                       futures[i].chunk_start = 0 /\ futures[i].chunk_size = 0

(***************************************************************************)
(* C20: under fair scheduling of the calling thread and the pool threads   *)
(* every aggregation request (its worker count is positive) ends: main has *)
(* finished with the table returned, or the request has raised.  A worker  *)
(* that has started completes, whatever the other workers do.              *)
(***************************************************************************)
C20_RequestTerminates ==
    /\ <>(entry = "aggregate_data_parallel" /\ pc \in {"done", "raised"}
            /\ result.kind \in {"returned", "raised"})
    /\ \A i \in 1..NumDays : (i \in Running) ~> (i \in Finished)

\* a request with fewer pool threads than files has ended with its table,
\* every file processed
C20_Witness ==
    /\ entry = "aggregate_data_parallel"
    /\ pc = "done"
    /\ result.kind = "returned"
    /\ req.num_threads >= 1
    /\ MaxWorkers < Len(futures)
    /\ Finished = 1..Len(futures)
    /\ result.files_processed = Len(futures)


(***************************************************************************)
(* Requests with absent, empty and non-empty filters, handed to both       *)
(* scripts: aggregate_data_parallel runs as the state machine, and         *)
(* aggregate_data of myscript.py is evaluated on the same directory and    *)
(* the same request.                                                       *)
(***************************************************************************)
\* an empty list handed to the function: supplied, no element
EmptyList == [supplied |-> TRUE, values |-> {}]
OnlyA2 == [supplied |-> TRUE, values |-> {"a2"}]

\* the files of day d: records of two users and two apps, a record of u2
\* whose metric is not an integer, a record older than 00:30, a short line
CompareFilesOfDay(d) ==
    {Missing,
     File(<<Row(<<d, 0, 47, 0>>, "u1", "a1", Ones),
            Row(<<d, 11, 0, 0>>, "u2", "a2", Twos)>>),
     File(<<Row(<<d, 0, 47, 0>>, "u1", "a2", Ones),
            Row(<<d, 0, 50, 0>>, "u2", "a1", NotInt)>>),
     File(<<Row(<<d, 0, 10, 0>>, "u1", "a2", Mixed),
            <<<<d, 0, 47, 0>>, "u1", "a1", "1", "1", "1", "1", "1", "1", "1", "1">>>>)}

InitCompare ==
    /\ entry = "aggregate_data_parallel"
    /\ logs \in {dir \in [Dates -> UNION {CompareFilesOfDay(d) : d \in Dates}] :
                    \A d \in Dates : dir[d] \in CompareFilesOfDay(d)}
    /\ \E w \in Windows, g \in Granularities,
          d \in {<<"user">>, <<"user", "app">>},
          u \in {NoFilter, EmptyList, OnlyU1}, a \in {NoFilter, EmptyList, OnlyA2},
          n \in {1, MaxThreads} :
          req = Request(w[1], w[2], g, d, u, a, n)
    /\ Idle
    /\ scan = NoScan
    /\ clock = NoClock

SpecCompare == InitCompare /\ [][Next]_vars

\* C21: for the same directory and the same request, aggregate_data of
\* myscript.py and aggregate_data_parallel of myscript_optimized.py have the
\* same outcome: one raises exactly when the other raises, and when they
\* return they return the same table.
C21_SequentialAndParallelAgree ==
    LET sequential == aggregate_data(logs, req)
    IN  /\ result.kind = "raised" => sequential.raised
        /\ result.kind = "returned" =>
              /\ ~sequential.raised
              /\ result.table = sequential.aggregated

\* the two ways in which the outcomes differ
C21_OnlySequentialRaises ==
    /\ result.kind = "returned"
    /\ aggregate_data(logs, req).raised

C21_OnlyParallelRaises ==
    /\ result.kind = "raised"
    /\ ~aggregate_data(logs, req).raised


\* the request with one of its filters taken away
WithoutUserFilter == [req EXCEPT !.user_filter = NoFilter]
WithoutAppFilter == [req EXCEPT !.app_filter = NoFilter]

\* both scripts do on req what they do on the request plain
SameAsRequest(plain) ==
    /\ aggregate_data(logs, req) = aggregate_data(logs, plain)
    /\ result.kind = "raised" => aggregate_data_parallel(logs, plain).raised
    /\ result.kind = "returned" =>
          /\ ~aggregate_data_parallel(logs, plain).raised
          /\ result.table = aggregate_data_parallel(logs, plain).table
          /\ result.total_rows = aggregate_data_parallel(logs, plain).rows

\* C22: a user filter or an app filter that is supplied but empty is treated
\* like an absent one: no record is rejected on that field, so both scripts
\* have the outcome, and return the table and the row count, of the same
\* request with no filter on that field.
C22_EmptyFilterIsNoFilter ==
    /\ req.user_filter = EmptyList => SameAsRequest(WithoutUserFilter)
    /\ req.app_filter = EmptyList => SameAsRequest(WithoutAppFilter)

\* a request with both filters empty has returned a table with records of
\* two users and two apps
C22_Witness ==
    /\ req.user_filter = EmptyList
    /\ req.app_filter = EmptyList
    /\ req.dimensions = <<"user", "app">>
    /\ result.kind = "returned"
    /\ \E k1, k2 \in DOMAIN result.table : k1[2] # k2[2] /\ k1[3] # k2[3]


\* the dates of the request's range, and the case in which none of them has
\* a day file: no work item is submitted
RequestDates == get_date_range(req.from_dt, req.to_dt)

NoFileInRange ==
    \A i \in 1..Len(RequestDates) : ~FileAt(logs, RequestDates[i]).exists

\* C23: a request that processes no file, because no date of its range has
\* a day file or because its to date is earlier than its from date, raises
\* no error and returns an empty table with 0 rows matched and 0 files
\* processed.
C23_NoFileReturnsEmpty ==
    NoFileInRange =>
        /\ result.kind # "raised"
        /\ pc \in {"returned", "done"} =>
              /\ result.kind = "returned"
              /\ result.table = EmptyTable
              /\ result.total_rows = 0
              /\ result.files_processed = 0

\* the part of C23 that the code keeps: a range with at least one date and
\* no day file
C23_DatesWithoutFilesReturnEmpty ==
    (NoFileInRange /\ RequestDates # <<>>) => C23_NoFileReturnsEmpty

C23_EmptyRangeRaises ==
    /\ RequestDates = <<>>
    /\ result.kind = "raised"
    /\ result.error = PoolError

====
